---- MODULE Spec2Model ----
(***************************************************************************)
(* TunnelDock: the reconciliation engine that keeps a Cloudflare tunnel's  *)
(* ingress list and the zone's CNAME records in step with the containers   *)
(* of a host.                                                              *)
(*                                                                         *)
(* Strings the code takes apart (hostnames, label values, container names) *)
(* are sequences of one-character strings, so that endsWith, split,        *)
(* replace and toLowerCase are computed and not assumed.  Timestamps       *)
(* (lastSync, timestamp) are not modelled.                                 *)
(***************************************************************************)
EXTENDS Integers, Sequences, FiniteSets, TLC

VARIABLES
    containers,          \* watchContainers: the snapshot of this tick
    previousContainers,  \* watchContainers: the snapshot of the previous tick
    pc,                  \* where the poll loop stands
    i,                   \* index of the container being synced (1-based)
    ingress,             \* remote: the tunnel's ingress rule list
    dns,                 \* remote: the zone's CNAME records
    store,               \* the data file: containers, tunnels, domains
    currentData,         \* cleanupStaleRecords: its in-memory copy of the file
    activeHostnames,     \* cleanupStaleRecords: the hostnames it found active
    staleHostnames,      \* cleanupStaleRecords: the hostnames it found stale
    todo,                \* cleanupStaleRecords: stale hostnames not yet visited
    hostname,            \* cleanupStaleRecords: the stale hostname in hand
    dnsStatus,           \* syncContainer: what manageDNSRecord returned
    calls,               \* history: the calls made in this tick
    failedNow,           \* history: containers whose upsert the provider rejected in this tick
    failedBefore,        \* history: the same for an earlier tick, container unchanged since
    faults,              \* history: how many calls were rejected or writes failed so far
    restarts,            \* history: how many times the process was started again
    ticks,               \* history: how many ticks were begun
    hist                 \* history: of the operation-level specifications, what they
                         \* did; of RetrySpec, the retractions the provider rejected

vars == <<containers, previousContainers, pc, i, ingress, dns, store, currentData,
          activeHostnames, staleHostnames, todo, hostname, dnsStatus, calls,
          failedNow, failedBefore, faults, restarts, ticks, hist>>

-----------------------------------------------------------------------------
(* Strings *)

\* String.prototype.endsWith
EndsWith(s, suffix) ==
    /\ Len(s) >= Len(suffix)
    /\ SubSeq(s, Len(s) - Len(suffix) + 1, Len(s)) = suffix

\* s.split(sep)[0]: the text before the first separator, all of s without one
SplitFirst(s, sep) ==
    IF \E k \in 1..Len(s) : s[k] = sep
    THEN LET k == CHOOSE k \in 1..Len(s) : s[k] = sep /\ \A j \in 1..(k - 1) : s[j] # sep
         IN  SubSeq(s, 1, k - 1)
    ELSE s

\* s.replace(ch, ""): the first occurrence of ch removed
RemoveFirst(s, ch) ==
    IF \E k \in 1..Len(s) : s[k] = ch
    THEN LET k == CHOOSE k \in 1..Len(s) : s[k] = ch /\ \A j \in 1..(k - 1) : s[j] # ch
         IN  SubSeq(s, 1, k - 1) \o SubSeq(s, k + 1, Len(s))
    ELSE s

LowerChar(ch) ==
    CASE ch = "T" -> "t"
      [] ch = "R" -> "r"
      [] ch = "U" -> "u"
      [] ch = "E" -> "e"
      [] OTHER -> ch

\* String.prototype.toLowerCase
ToLowerCase(s) == [k \in 1..Len(s) |-> LowerChar(s[k])]

\* `${a}.${b}`
Dotted(a, b) == a \o <<".">> \o b

-----------------------------------------------------------------------------
(* Configuration *)

\* zone.name, handed to DockerService as its domain
Domain == <<"x", ".", "c">>

\* process.env.CF_TUNNEL_ID
TunnelId == "T"

\* `${tunnelId}.cfargotunnel.com`
Target == <<TunnelId, ".cfargotunnel.com">>

\* a CNAME content that is not this tunnel's
OtherTarget == <<"elsewhere">>

\* JavaScript's undefined, where the code passes or compares it
Undefined == "undefined"

Star == <<"*">>

CatchAll == [hostname |-> Star, service |-> <<"http_status:404">>]

-----------------------------------------------------------------------------
(* DockerService: the desired-state deriver *)

AssignKey == <<"tunneldock", "assign">>

HostnameKey == <<"tunneldock", "hostname">>

\* 'true', the text the assign label is compared with
TrueText == <<"t", "r", "u", "e">>

PortKey == <<"tunneldock", "service", "port">>

\* what parseInt gives for a text that does not start with a digit
NaN == -1

DigitValue(ch) ==
    CASE ch = "0" -> 0 [] ch = "1" -> 1 [] ch = "2" -> 2 [] ch = "3" -> 3
      [] ch = "4" -> 4 [] ch = "5" -> 5 [] ch = "6" -> 6 [] ch = "7" -> 7
      [] ch = "8" -> 8 [] ch = "9" -> 9 [] OTHER -> NaN

\* the decimal value of the first n characters of s, all of them digits
RECURSIVE DecimalValue(_, _)
DecimalValue(s, n) ==
    IF n = 0 THEN 0 ELSE 10 * DecimalValue(s, n - 1) + DigitValue(s[n])

\* parseInt(value) for an unsigned decimal text: the leading digits, NaN without one
ParseInt(s) ==
    LET digits == {n \in 0..Len(s) : \A k \in 1..n : DigitValue(s[k]) # NaN}
        n == CHOOSE n \in digits : \A m \in digits : m <= n
    IN  IF n = 0 THEN NaN ELSE DecimalValue(s, n)

\* the settings of originRequestParsers, by what their parser makes of the text
BooleanSettings == {"http2Origin", "noTLSVerify", "disableChunkedEncoding", "noHappyEyeballs"}

NumberSettings ==
    {"connectTimeout", "keepAliveConnections", "keepAliveTimeout", "tcpKeepAlive", "tlsTimeout"}

StringSettings == {"httpHostHeader", "originServerName", "proxyType"}

OriginRequestSettings == BooleanSettings \cup NumberSettings \cup StringSettings

\* the path of the label tunneldock.originRequest.<setting>
OriginRequestKey(setting) == <<"tunneldock", "originRequest", setting>>

\* originRequestParsers[setting](value)
OriginRequestParsers(setting, value) ==
    IF setting \in BooleanSettings THEN ToLowerCase(value) = TrueText
    ELSE IF setting \in NumberSettings THEN ParseInt(value)
    ELSE value

\* parseDotNotationLabels, the originRequest case: a field for every label
\* whose setting has a parser
ParseOriginRequest(labels) ==
    LET keys == {key \in DOMAIN labels :
                    /\ Len(key) = 3
                    /\ key[1] = "tunneldock" /\ key[2] = "originRequest"
                    /\ key[3] \in OriginRequestSettings}
        set == {key[3] : key \in keys}
    IN  [s \in set |-> OriginRequestParsers(s, labels[OriginRequestKey(s)])]

\* parseDotNotationLabels for the labels hostname, assign, service.port and
\* originRequest.*; a key is the path key.split('.') yields.  The result holds
\* a field only when a label set it; any service label makes config.service,
\* with protocol http.
ParseDotNotationLabels(labels) ==
    LET used == {key \in DOMAIN labels : Len(key) >= 2 /\ key[1] = "tunneldock"}
        Has(name) == \E key \in used : key[2] = name
        Value(name) == labels[CHOOSE key \in used : key[2] = name]
        HasPort == \E key \in used : key = PortKey
    IN  [originRequest |-> ParseOriginRequest(labels)]
        @@ (IF Has("hostname") THEN [hostname |-> Value("hostname")] ELSE <<>>)
        @@ (IF Has("assign")
            THEN [assign |-> ToLowerCase(Value("assign")) = TrueText]
            ELSE <<>>)
        @@ (IF Has("service")
            THEN [service |-> [protocol |-> "http"]
                              @@ (IF HasPort THEN [port |-> ParseInt(labels[PortKey])]
                                  ELSE <<>>)]
            ELSE <<>>)

\* dockerLabelConfigSchema.parse(config) rejects the config: z.number() does
\* not take NaN, in service.port or in a number of originRequest
LabelsRejected(config) ==
    \/ /\ "service" \in DOMAIN config
       /\ "port" \in DOMAIN config.service
       /\ config.service.port = NaN
    \/ \E s \in DOMAIN config.originRequest :
          s \in NumberSettings /\ config.originRequest[s] = NaN

\* container.Names[0].replace("/", "")
ContainerName(container) == RemoveFirst(container.Names[1], "/")

\* the hostname label taken as it is declared
ResolveHostname_AsDeclared(config, container) ==
    IF "hostname" \in DOMAIN config /\ config.hostname # <<>>
    THEN config.hostname
    ELSE Dotted(ContainerName(container), Domain)

\* shouldManageTunnel, the hostname: the label qualified with the domain, or
\* the container's name under the domain
ResolveHostname(config, container) ==
    IF "hostname" \in DOMAIN config /\ config.hostname # <<>>
    THEN IF ~EndsWith(config.hostname, Domain)
         THEN Dotted(config.hostname, Domain)
         ELSE config.hostname
    ELSE Dotted(ContainerName(container), Domain)

DefaultPort == 80

\* config.service?.port || container.Ports?.[0]?.PublicPort || 80
ResolvePort(config, container) ==
    IF /\ "service" \in DOMAIN config
       /\ "port" \in DOMAIN config.service
       /\ config.service.port # 0
    THEN config.service.port
    ELSE IF /\ "Ports" \in DOMAIN container
            /\ Len(container.Ports) >= 1
            /\ "PublicPort" \in DOMAIN container.Ports[1]
            /\ container.Ports[1].PublicPort # 0
         THEN container.Ports[1].PublicPort
         ELSE DefaultPort

\* `${protocol}://localhost:${port}` and the path, which starts with "/"
ResolveService(config, container) ==
    LET service == IF "service" \in DOMAIN config THEN config.service ELSE <<>>
        protocol == IF "protocol" \in DOMAIN service /\ service.protocol # ""
                    THEN service.protocol ELSE "http"
        path == IF "path" \in DOMAIN service THEN service.path ELSE <<>>
    IN  << protocol, "://localhost:", ToString(ResolvePort(config, container)),
           IF path = <<>> \/ path[1] = "/" THEN path ELSE <<"/">> \o path >>

\* the gate without the comparison with the previous state
StateChangeDetected_Level(previousState, state) == state = "running"

\* the gate without the test for running
StateChangeDetected_AnyChange(previousState, state) == previousState # state

\* the edge-triggered gate of shouldManageTunnel
StateChangeDetected(previousState, state) ==
    previousState # state /\ state = "running"

\* the assign gate left out
NotAssigned_Never(config) == FALSE

\* the assign gate of shouldManageTunnel: !config.assign
NotAssigned(config) == ~("assign" \in DOMAIN config /\ config.assign)

\* shouldManageTunnel: what it returns, or that it throws
ShouldManageTunnel(container, previousState) ==
    LET labels == IF "Labels" \in DOMAIN container THEN container.Labels ELSE <<>>
        config == ParseDotNotationLabels(labels)
    IN  IF LabelsRejected(config)
        THEN [shouldManage |-> FALSE, hasConfig |-> FALSE, throws |-> TRUE]
        ELSE IF NotAssigned(config)
        THEN [shouldManage |-> FALSE, hasConfig |-> FALSE, throws |-> FALSE]
        ELSE IF StateChangeDetected(previousState, container.State)
             THEN [shouldManage |-> TRUE, hasConfig |-> TRUE, throws |-> FALSE,
                   config |-> [containerName |-> ContainerName(container),
                               hostname |-> ResolveHostname(config, container),
                               port |-> ResolvePort(config, container),
                               service |-> ResolveService(config, container),
                               originRequest |-> config.originRequest]]
             ELSE [shouldManage |-> FALSE, hasConfig |-> FALSE, throws |-> FALSE]

-----------------------------------------------------------------------------
(* CloudflareService: the remote reconciler *)

DefaultOriginRequest ==
    [connectTimeout |-> 0, disableChunkedEncoding |-> FALSE, http2Origin |-> FALSE,
     noTLSVerify |-> FALSE, tcpKeepAlive |-> 30]

\* ingressRules.findIndex(rule => rule.hostname === h), 0 for -1
FindIndex(ingressRules, h) ==
    IF \E k \in 1..Len(ingressRules) : ingressRules[k].hostname = h
    THEN CHOOSE k \in 1..Len(ingressRules) :
            /\ ingressRules[k].hostname = h
            /\ \A j \in 1..(k - 1) : ingressRules[j].hostname # h
    ELSE 0

\* the item put in front of the list
SpliceBeforeLast_Front(list, item) == <<item>> \o list

\* list.splice(list.length - 1, 0, item): a negative start counts from the
\* end and is clamped to the front
SpliceBeforeLast(list, item) ==
    LET start == IF Len(list) - 1 < 0 THEN 0 ELSE Len(list) - 1
    IN  SubSeq(list, 1, start) \o <<item>> \o SubSeq(list, start + 1, Len(list))

\* UpdateIngress with the new rule pushed at the end of the list
UpdateIngress_Append(ingressRules, config) ==
    Append(ingressRules,
           [hostname |-> config.hostname, service |-> config.service,
            originRequest |-> config.originRequest @@ DefaultOriginRequest])

\* UpdateIngress with the defaults spread after the declaration's options
UpdateIngress_DefaultsLast(ingressRules, config) ==
    LET existingRuleIndex == FindIndex(ingressRules, config.hostname)
        newRule == [hostname |-> config.hostname, service |-> config.service,
                    originRequest |-> DefaultOriginRequest @@ config.originRequest]
    IN  IF existingRuleIndex # 0
        THEN [ingressRules EXCEPT ![existingRuleIndex] = newRule]
        ELSE SpliceBeforeLast(ingressRules, newRule)

\* updateTunnelConfig: the list it writes back, from the list it fetched
UpdateIngress(ingressRules, config) ==
    LET existingRuleIndex == FindIndex(ingressRules, config.hostname)
        newRule == [hostname |-> config.hostname, service |-> config.service,
                    originRequest |-> config.originRequest @@ DefaultOriginRequest]
    IN  IF existingRuleIndex # 0
        THEN [ingressRules EXCEPT ![existingRuleIndex] = newRule]
        ELSE SpliceBeforeLast(ingressRules, newRule)

\* deleteTunnelConfig: the list it writes back, from the list it fetched
DeleteIngress(ingressRules, h) ==
    LET kept == SelectSeq(ingressRules, LAMBDA rule : rule.hostname # h)
    IN  IF ~\E k \in 1..Len(kept) : kept[k].hostname = Star
        THEN Append(kept, CatchAll)
        ELSE kept

\* updateTunnelConfig: currentConfig.config?.ingress || [catch-all], for a
\* fetched configuration that has an ingress list or has none; an empty list
\* is truthy and is kept
FetchedForUpdate(remote) ==
    IF "ingress" \in DOMAIN remote THEN remote.ingress ELSE <<CatchAll>>

\* deleteTunnelConfig: currentConfig.config?.ingress || []
FetchedForDelete(remote) ==
    IF "ingress" \in DOMAIN remote THEN remote.ingress ELSE <<>>

\* dns.records.list({name: {exact: hostname}, type: "CNAME"})
ListRecords(records, h) == {r \in records : r.name = h}

\* the name the provider stores for the name a create or update call gives:
\* a name outside the zone is taken relative to the zone
RecordName(name) == IF EndsWith(name, Domain) THEN name ELSE Dotted(name, Domain)

\* hostname.split(".")[0], the name manageDNSRecord sends
Subdomain(h) == SplitFirst(h, ".")

\* manageDNSRecord: the records after the call and what it returns; the
\* provider holds one CNAME per name and rejects a second one
ManageDNSRecord(records, h) ==
    LET found == ListRecords(records, h)
        written == [name |-> RecordName(Subdomain(h)), content |-> Target]
    IN  IF found # {}
        THEN LET existingRecord == CHOOSE r \in found : TRUE
             IN  IF existingRecord.content # Target
                 THEN IF \E r \in records \ {existingRecord} : r.name = written.name
                      THEN [ok |-> FALSE, records |-> records, status |-> ""]
                      ELSE [ok |-> TRUE, status |-> "updated",
                            records |-> (records \ {existingRecord}) \cup {written}]
                 ELSE [ok |-> TRUE, status |-> "unchanged", records |-> records]
        ELSE IF \E r \in records : r.name = written.name
             THEN [ok |-> FALSE, records |-> records, status |-> ""]
             ELSE [ok |-> TRUE, status |-> "created", records |-> records \cup {written}]

\* DeleteRecord with the delete call left out
DeleteRecord_Keep(records, h) == records

\* deleteTunnelConfig, its first half: the record found for the hostname deleted
DeleteRecord(records, h) ==
    LET found == ListRecords(records, h)
    IN  IF found # {} THEN records \ {CHOOSE r \in found : TRUE} ELSE records

-----------------------------------------------------------------------------
(* DataService: the state store *)

\* loadData's default structure
DefaultData == [containers |-> <<>>, tunnels |-> <<>>, domains |-> <<>>]

\* what existsSync and readFileSync give for a file that is not there
Missing == [missing |-> TRUE]

\* a file whose content JSON.parse rejects, as a write that was cut short leaves it
Garbled == [text |-> "{"]

\* what a read that throws leaves loadData with
Unreadable == [error |-> "read"]

\* fs.readFileSync(this.dataFilePath): the content, or a throw
ReadFile(file, readable) == IF readable THEN file ELSE Unreadable

\* tunnelRecordSchema: hostname, service, tunnelId and configStatus are required
ValidTunnelRecord(record) ==
    {"hostname", "service", "tunnelId", "configStatus"} \subseteq DOMAIN record

\* domainRecordSchema: hostname, target and status are required
ValidDomainRecord(record) == {"hostname", "target", "status"} \subseteq DOMAIN record

\* tunnelDockDataSchema.parse accepts the content
Validates(file) ==
    /\ {"containers", "tunnels", "domains"} \subseteq DOMAIN file
    /\ \A h \in DOMAIN file.tunnels : ValidTunnelRecord(file.tunnels[h])
    /\ \A h \in DOMAIN file.domains : ValidDomainRecord(file.domains[h])

\* loadData without its try: what it cannot read or parse is thrown on
LoadData_NoCatch(file) == IF Validates(file) THEN file ELSE [throws |-> TRUE]

\* loadData: the content that is there, parses and validates, the default
\* structure for anything else
LoadData(file) == IF Validates(file) THEN file ELSE DefaultData

\* the data watchContainers saves at the head of a tick
SnapshotData(snapshot, loaded) ==
    [containers |-> snapshot, tunnels |-> loaded.tunnels, domains |-> loaded.domains]

\* updateTunnelData without its saveData call: the file stays as it was
UpdateTunnelData_NoSave(file, h, data) == file

\* updateTunnelData: the data it saves
UpdateTunnelData(file, h, data) ==
    LET currentData_ == LoadData(file)
        existingTunnel == IF h \in DOMAIN currentData_.tunnels
                          THEN currentData_.tunnels[h] ELSE <<>>
    IN  [currentData_ EXCEPT !.tunnels = (h :> (data @@ existingTunnel)) @@ @]

\* delete map[h]
Without(map, h) == [k \in (DOMAIN map) \ {h} |-> map[k]]

-----------------------------------------------------------------------------
(* The container runtime: what getContainerInfo may return *)

NameA == <<"/", "a">>

NameB == <<"/", "b">>

Container(name, state, labels) ==
    [Names |-> <<name>>, State |-> state, Labels |-> labels, Ports |-> <<>>]

States == {"running", "exited"}

\* the label sets of container a: none; assign "true"; assign "TRUE" with a
\* hostname of two labels; assign "false" with the same hostname; assign
\* "true" with a port label that is not a number
LabelChoices ==
    { <<>>,
      AssignKey :> TrueText,
      (AssignKey :> <<"T", "R", "U", "E">>) @@ (HostnameKey :> <<"w", ".", "v">>),
      (AssignKey :> <<"f", "a", "l", "s", "e">>) @@ (HostnameKey :> <<"w", ".", "v">>),
      (AssignKey :> TrueText) @@ (PortKey :> <<"p">>) }

VariantsA == {Container(NameA, s, l) : s \in States, l \in LabelChoices}

VariantsB == {Container(NameB, "running", AssignKey :> TrueText)}

\* docker.listContainers({all: true}): every container, running or not.
\* Container a is listed, when it is, before b and never without it.
Snapshots ==
    {<<>>} \cup {<<b>> : b \in VariantsB}
           \cup {<<a, b>> : a \in VariantsA, b \in VariantsB}

-----------------------------------------------------------------------------
(* What the engine finds at start *)

ForeignHostname == <<"f", ".", "x", ".", "c">>

OldHostname == <<"a", ".", "x", ".", "c">>

ForeignRule ==
    [hostname |-> ForeignHostname, service |-> <<"http", "://localhost:", "8080", <<>>>>]

OldRule ==
    [hostname |-> OldHostname, service |-> <<"http", "://localhost:", "80", <<>>>>,
     originRequest |-> DefaultOriginRequest]

ForeignRecord == [name |-> ForeignHostname, content |-> OtherTarget]

OldRecord == [name |-> OldHostname, content |-> Target]

\* a data file an earlier run left, with a synced hostname
OldData ==
    [containers |-> <<>>,
     tunnels |-> (OldHostname :>
                    [hostname |-> OldHostname, tunnelId |-> TunnelId,
                     service |-> OldRule.service, configStatus |-> "updated",
                     dnsStatus |-> "created"]),
     domains |-> (OldHostname :>
                    [hostname |-> OldHostname, target |-> Target, status |-> "created"])]

Installations ==
    { [ingress |-> <<ForeignRule, CatchAll>>, dns |-> {ForeignRecord}, store |-> DefaultData],
      [ingress |-> <<OldRule, ForeignRule, CatchAll>>, dns |-> {OldRecord, ForeignRecord},
       store |-> OldData] }

-----------------------------------------------------------------------------
(* TunnelDock: the poll loop *)

\* previousContainers.find(prev => prev.Names[0] === container.Names[0])?.State
PreviousState(container) ==
    IF \E k \in 1..Len(previousContainers) :
            previousContainers[k].Names[1] = container.Names[1]
    THEN previousContainers[
            CHOOSE k \in 1..Len(previousContainers) :
                /\ previousContainers[k].Names[1] = container.Names[1]
                /\ \A j \in 1..(k - 1) :
                        previousContainers[j].Names[1] # container.Names[1]].State
    ELSE Undefined

\* syncContainer without its try: the error reaches watchContainers
SyncCatch_Rethrow(resume) == "stopped"

\* the catch of syncContainer: the error is logged, the for loop resumes
SyncCatch(resume) == resume

\* the catch inside the for loop of cleanupStaleRecords
SweepCatch(resume) == resume

\* the catch of watchContainers, around the while loop: the loop is left
OuterCatch == "stopped"

MaxFaults == 1

MaxRestarts == 1

MaxTicks == 2

\* what a provider call or a file write may do: succeed, or fail
Outcomes == IF faults < MaxFaults THEN BOOLEAN ELSE {TRUE}

Failed(ok) == IF ok THEN faults ELSE faults + 1

Log(op, h, by, ok) == calls \cup {[op |-> op, host |-> h, by |-> by, ok |-> ok]}

\* where the for loop of watchContainers goes after containers[i]
AfterContainer == IF i + 1 > Len(containers) THEN "sweep" ELSE "sync"

\* syncContainer's call of shouldManageTunnel for containers[i]
Managed == ShouldManageTunnel(containers[i], PreviousState(containers[i]))

Init ==
    /\ pc = "tick"
    /\ containers = <<>>
    /\ previousContainers = <<>>
    /\ i = 1
    /\ \E inst \in Installations :
          /\ ingress = inst.ingress
          /\ dns = inst.dns
          /\ store = inst.store
    /\ currentData = DefaultData
    /\ activeHostnames = {}
    /\ staleHostnames = {}
    /\ todo = {}
    /\ hostname = <<>>
    /\ dnsStatus = ""
    /\ calls = {}
    /\ failedNow = {}
    /\ failedBefore = {}
    /\ faults = 0
    /\ restarts = 0
    /\ ticks = 0
    /\ hist = <<>>

\* the container of that name is in both snapshots, the same, and running
SameRunning(name, before, now) ==
    \E j \in 1..Len(before), k \in 1..Len(now) :
        /\ before[j].Names[1] = name
        /\ now[k] = before[j]
        /\ now[k].State = "running"

\* the history at the head of a tick: what was redone is dropped, what waits
\* was rejected in an earlier tick
Aged ==
    LET waiting == SelectSeq(hist, LAMBDA entry : ~entry.done)
    IN  [k \in 1..Len(waiting) |-> [waiting[k] EXCEPT !.earlier = TRUE]]

\* watchContainers, the head of a tick: the snapshot, and the file rewritten
\* with it, tunnels and domains kept.  In the poll loop the file is valid and
\* its reads succeed; StoreSpec follows reads that fail and files that do not
\* validate.  With `remembered`, the history of rejected retractions is kept.
TickStartOf(remembered) ==
    /\ pc = "tick"
    /\ ticks < MaxTicks
    /\ ticks' = ticks + 1
    /\ \E snapshot \in Snapshots, saved \in Outcomes :
          /\ containers' = snapshot
          /\ calls' = {[op |-> "saveData.tick", host |-> <<>>, by |-> 0, ok |-> saved]}
          /\ faults' = Failed(saved)
          /\ failedBefore' = {name \in failedBefore \cup failedNow :
                                 SameRunning(name, previousContainers, snapshot)}
          /\ IF saved
             THEN /\ store' = SnapshotData(snapshot, LoadData(store))
                  /\ pc' = IF snapshot = <<>> THEN "sweep" ELSE "sync"
             ELSE /\ store' = store
                  /\ pc' = OuterCatch
    /\ i' = 1
    /\ failedNow' = {}
    /\ hist' = IF remembered THEN Aged ELSE hist
    /\ UNCHANGED <<previousContainers, ingress, dns, currentData, activeHostnames,
                   staleHostnames, todo, hostname, dnsStatus, restarts>>

TickStart == TickStartOf(FALSE)

\* syncContainer for a container shouldManageTunnel does not hand over
SyncSkip ==
    /\ pc = "sync"
    /\ ~Managed.throws
    /\ ~(Managed.shouldManage /\ Managed.hasConfig)
    /\ pc' = AfterContainer
    /\ i' = i + 1
    /\ UNCHANGED <<containers, previousContainers, ingress, dns, store, currentData,
                   activeHostnames, staleHostnames, todo, hostname, dnsStatus, calls,
                   failedNow, failedBefore, faults, restarts, ticks, hist>>

\* syncContainer for a container whose labels shouldManageTunnel rejects: the
\* call stands before the try, the error leaves the for loop and the while
\* loop of watchContainers
SyncThrow ==
    /\ pc = "sync"
    /\ Managed.throws
    /\ pc' = OuterCatch
    /\ UNCHANGED <<containers, previousContainers, i, ingress, dns, store, currentData,
                   activeHostnames, staleHostnames, todo, hostname, dnsStatus, calls,
                   failedNow, failedBefore, faults, restarts, ticks, hist>>

\* syncContainer: updateTunnelConfig, which the provider accepts or rejects
SyncUpdateTunnelConfig ==
    /\ pc = "sync"
    /\ Managed.shouldManage /\ Managed.hasConfig
    /\ \E accepted \in Outcomes :
          /\ calls' = Log("updateTunnelConfig", Managed.config.hostname, i, accepted)
          /\ faults' = Failed(accepted)
          /\ IF accepted
             THEN /\ ingress' = UpdateIngress(ingress, Managed.config)
                  /\ pc' = "record1"
                  /\ i' = i
                  /\ failedNow' = failedNow
             ELSE /\ ingress' = ingress
                  /\ pc' = SyncCatch(AfterContainer)
                  /\ i' = i + 1
                  /\ failedNow' = failedNow \cup {containers[i].Names[1]}
    /\ UNCHANGED <<containers, previousContainers, dns, store, currentData,
                   activeHostnames, staleHostnames, todo, hostname, dnsStatus,
                   failedBefore, restarts, ticks, hist>>

\* syncContainer: updateTunnelData after the ingress mutation
SyncRecordConfig ==
    /\ pc = "record1"
    /\ \E saved \in Outcomes :
          /\ calls' = Log("updateTunnelData.config", Managed.config.hostname, i, saved)
          /\ faults' = Failed(saved)
          /\ IF saved
             THEN /\ store' = UpdateTunnelData(store, Managed.config.hostname,
                                 [hostname |-> Managed.config.hostname,
                                  tunnelId |-> TunnelId,
                                  service |-> Managed.config.service,
                                  configStatus |-> "updated"])
                  /\ pc' = "dns"
                  /\ i' = i
             ELSE /\ store' = store
                  /\ pc' = SyncCatch(AfterContainer)
                  /\ i' = i + 1
    /\ UNCHANGED <<containers, previousContainers, ingress, dns, currentData,
                   activeHostnames, staleHostnames, todo, hostname, dnsStatus,
                   failedNow, failedBefore, restarts, ticks, hist>>

\* syncContainer: manageDNSRecord
SyncManageDNS ==
    /\ pc = "dns"
    /\ \E accepted \in Outcomes :
          LET r == ManageDNSRecord(dns, Managed.config.hostname)
              ok == accepted /\ r.ok
          IN  /\ calls' = Log("manageDNSRecord", Managed.config.hostname, i, ok)
              /\ faults' = Failed(accepted)
              /\ IF ok
                 THEN /\ dns' = r.records
                      /\ dnsStatus' = r.status
                      /\ pc' = "record2"
                      /\ i' = i
                      /\ failedNow' = failedNow \ {containers[i].Names[1]}
                      /\ failedBefore' = failedBefore \ {containers[i].Names[1]}
                 ELSE /\ dns' = dns
                      /\ dnsStatus' = dnsStatus
                      /\ pc' = SyncCatch(AfterContainer)
                      /\ i' = i + 1
                      /\ failedNow' = failedNow \cup {containers[i].Names[1]}
                      /\ failedBefore' = failedBefore
    /\ UNCHANGED <<containers, previousContainers, ingress, store, currentData,
                   activeHostnames, staleHostnames, todo, hostname, restarts, ticks, hist>>

\* syncContainer: updateTunnelData after the DNS mutation
SyncRecordDns ==
    /\ pc = "record2"
    /\ \E saved \in Outcomes :
          /\ calls' = Log("updateTunnelData.dns", Managed.config.hostname, i, saved)
          /\ faults' = Failed(saved)
          /\ IF saved
             THEN /\ store' = UpdateTunnelData(store, Managed.config.hostname,
                                 [hostname |-> Managed.config.hostname,
                                  tunnelId |-> TunnelId,
                                  service |-> Managed.config.service,
                                  configStatus |-> "updated",
                                  dnsStatus |-> dnsStatus])
                  /\ pc' = AfterContainer
             ELSE /\ store' = store
                  /\ pc' = SyncCatch(AfterContainer)
    /\ i' = i + 1
    /\ dnsStatus' = ""
    /\ UNCHANGED <<containers, previousContainers, ingress, dns, currentData,
                   activeHostnames, staleHostnames, todo, hostname, failedNow,
                   failedBefore, restarts, ticks, hist>>

\* cleanupStaleRecords: the hostnames of the containers for which
\* shouldManageTunnel(container), called without a previous state, gives a config
CollectActive(list) ==
    {ShouldManageTunnel(list[k], Undefined).config.hostname :
        k \in {j \in 1..Len(list) : ShouldManageTunnel(list[j], Undefined).hasConfig}}

\* a filter that takes for stale only what the previous tick's containers declared
FilterStale_Edge(data, active) ==
    {h \in (DOMAIN data.tunnels) \ active :
        \E k \in 1..Len(previousContainers) :
            ShouldManageTunnel(previousContainers[k], Undefined).hasConfig
            /\ ShouldManageTunnel(previousContainers[k], Undefined).config.hostname = h}

\* Object.keys(currentData.tunnels).filter(hostname => !activeHostnames.has(hostname))
FilterStale(data, active) == (DOMAIN data.tunnels) \ active

\* where the for loop of cleanupStaleRecords goes with `rest` left to visit
AfterStale(rest) == IF rest = {} THEN "save" ELSE "retract"

\* cleanupStaleRecords: shouldManageTunnel rejects the labels of a container
SweepThrows(list) == \E k \in 1..Len(list) : ShouldManageTunnel(list[k], Undefined).throws

\* cleanupStaleRecords up to its for loop over the stale hostnames; its calls
\* of shouldManageTunnel stand in no try
SweepStart ==
    /\ pc = "sweep"
    /\ currentData' = LoadData(store)
    /\ IF SweepThrows(containers)
       THEN /\ pc' = OuterCatch
            /\ UNCHANGED <<activeHostnames, staleHostnames, todo>>
       ELSE /\ activeHostnames' = CollectActive(containers)
            /\ staleHostnames' = FilterStale(currentData', activeHostnames')
            /\ todo' = staleHostnames'
            /\ pc' = IF staleHostnames' = {} THEN "sleep" ELSE "retract"
    /\ UNCHANGED <<containers, previousContainers, i, ingress, dns, store, hostname,
                   dnsStatus, calls, failedNow, failedBefore, faults, restarts, ticks, hist>>

\* the catch of the sweep that forgets the hostname it could not retract
KeptAfterReject_Forget(data, h) ==
    [data EXCEPT !.tunnels = Without(@, h), !.domains = Without(@, h)]

\* the catch inside the for loop of cleanupStaleRecords: the deletes of the
\* local records were not reached, the in-memory copy is as it was
KeptAfterReject(data, h) == data

\* the history with the retraction of h the provider rejected at that step,
\* if none of h is waiting there already: rejected in this tick, not redone
Rejected(h, step) ==
    IF \E k \in 1..Len(hist) : hist[k].host = h
    THEN hist
    ELSE Append(hist, [op |-> "deleteTunnelConfig", host |-> h, step |-> step,
                       earlier |-> FALSE, done |-> FALSE])

\* the history with the rejected retraction of h redone
Redone(h) ==
    [k \in 1..Len(hist) |->
        IF hist[k].host = h THEN [hist[k] EXCEPT !.done = TRUE] ELSE hist[k]]

\* deleteTunnelConfig for the next stale hostname: its CNAME record looked up
\* and deleted
RetractDnsOf(remembered) ==
    /\ pc = "retract"
    /\ \E h \in todo, accepted \in Outcomes :
          /\ calls' = Log("deleteTunnelConfig.dns", h, 0, accepted)
          /\ faults' = Failed(accepted)
          /\ IF accepted
             THEN /\ dns' = DeleteRecord(dns, h)
                  /\ hostname' = h
                  /\ todo' = todo
                  /\ currentData' = currentData
                  /\ hist' = hist
                  /\ pc' = "retractIngress"
             ELSE /\ dns' = dns
                  /\ hostname' = <<>>
                  /\ todo' = todo \ {h}
                  /\ currentData' = KeptAfterReject(currentData, h)
                  /\ hist' = IF remembered THEN Rejected(h, "dns") ELSE hist
                  /\ pc' = SweepCatch(AfterStale(todo \ {h}))
    /\ UNCHANGED <<containers, previousContainers, i, ingress, store,
                   activeHostnames, staleHostnames, dnsStatus, failedNow,
                   failedBefore, restarts, ticks>>

RetractDns == RetractDnsOf(FALSE)

\* deleteTunnelConfig, its second half: the rule filtered out of the ingress
\* list; then the local records deleted from the in-memory copy
RetractIngressOf(remembered) ==
    /\ pc = "retractIngress"
    /\ \E accepted \in Outcomes :
          /\ calls' = Log("deleteTunnelConfig.ingress", hostname, 0, accepted)
          /\ faults' = Failed(accepted)
          /\ IF accepted
             THEN /\ ingress' = DeleteIngress(ingress, hostname)
                  /\ currentData' =
                        [currentData EXCEPT !.tunnels = Without(@, hostname),
                                            !.domains = Without(@, hostname)]
                  /\ hist' = IF remembered THEN Redone(hostname) ELSE hist
                  /\ pc' = AfterStale(todo \ {hostname})
             ELSE /\ ingress' = ingress
                  /\ currentData' = KeptAfterReject(currentData, hostname)
                  /\ hist' = IF remembered THEN Rejected(hostname, "ingress") ELSE hist
                  /\ pc' = SweepCatch(AfterStale(todo \ {hostname}))
    /\ todo' = todo \ {hostname}
    /\ hostname' = <<>>
    /\ UNCHANGED <<containers, previousContainers, i, dns, store, activeHostnames,
                   staleHostnames, dnsStatus, failedNow, failedBefore, restarts, ticks>>

RetractIngress == RetractIngressOf(FALSE)

\* cleanupStaleRecords: the save after the for loop, outside any try
SweepSave ==
    /\ pc = "save"
    /\ \E saved \in Outcomes :
          /\ calls' = Log("saveData.sweep", <<>>, 0, saved)
          /\ faults' = Failed(saved)
          /\ IF saved
             THEN /\ store' = currentData
                  /\ pc' = "sleep"
             ELSE /\ store' = store
                  /\ pc' = OuterCatch
    /\ UNCHANGED <<containers, previousContainers, i, ingress, dns, currentData,
                   activeHostnames, staleHostnames, todo, hostname, dnsStatus,
                   failedNow, failedBefore, restarts, ticks, hist>>

\* watchContainers, the foot of a tick: previousContainers = containers, the sleep
TickEnd ==
    /\ pc = "sleep"
    /\ previousContainers' = containers
    /\ pc' = "tick"
    /\ containers' = <<>>
    /\ i' = 1
    /\ currentData' = DefaultData
    /\ activeHostnames' = {}
    /\ staleHostnames' = {}
    /\ todo' = {}
    /\ calls' = {}
    /\ UNCHANGED <<ingress, dns, store, hostname, dnsStatus, failedNow, failedBefore, faults, restarts, ticks, hist>>

\* the process ends, at any point, and is started again: watchContainers
\* begins with previousContainers = []
Restart ==
    /\ pc \notin {"tick", "ops"} \/ (pc = "tick" /\ previousContainers # <<>>)
    /\ restarts < MaxRestarts
    /\ restarts' = restarts + 1
    /\ pc' = "tick"
    /\ previousContainers' = <<>>
    /\ containers' = <<>>
    /\ i' = 1
    /\ currentData' = DefaultData
    /\ activeHostnames' = {}
    /\ staleHostnames' = {}
    /\ todo' = {}
    /\ hostname' = <<>>
    /\ dnsStatus' = ""
    /\ calls' = {}
    /\ failedNow' = {}
    /\ failedBefore' = {}
    /\ UNCHANGED <<ingress, dns, store, faults, ticks, hist>>

Next ==
    \/ TickStart
    \/ SyncSkip
    \/ SyncThrow
    \/ SyncUpdateTunnelConfig
    \/ SyncRecordConfig
    \/ SyncManageDNS
    \/ SyncRecordDns
    \/ SweepStart
    \/ RetractDns
    \/ RetractIngress
    \/ SweepSave
    \/ TickEnd
    \/ Restart

Spec == Init /\ [][Next]_vars

-----------------------------------------------------------------------------
(* The poll loop with the rejected retractions remembered *)

\* the engine starts on what an earlier run left: a synced hostname
RetryInit == Init /\ store = OldData

TickStartRemembered == TickStartOf(TRUE)

RetractDnsRemembered == RetractDnsOf(TRUE)

RetractIngressRemembered == RetractIngressOf(TRUE)

RetryNext ==
    \/ TickStartRemembered
    \/ SyncSkip
    \/ SyncThrow
    \/ SyncUpdateTunnelConfig
    \/ SyncRecordConfig
    \/ SyncManageDNS
    \/ SyncRecordDns
    \/ SweepStart
    \/ RetractDnsRemembered
    \/ RetractIngressRemembered
    \/ SweepSave
    \/ TickEnd
    \/ Restart

RetrySpec == RetryInit /\ [][RetryNext]_vars

-----------------------------------------------------------------------------
(* The remote reconciler on its own: any sequence of upserts and retractions *)

MultiLabelHostname == <<"w", ".", "v", ".", "x", ".", "c">>

OpsServices ==
    { <<"http", "://localhost:", "80", <<>>>>, <<"http", "://localhost:", "8080", <<>>>> }

\* declarations shouldManageTunnel can hand to the upsert path
OpsConfigs ==
    {[hostname |-> h, service |-> s, originRequest |-> <<>>] :
        h \in {OldHostname, MultiLabelHostname}, s \in OpsServices}

OpsHostnames == {OldHostname, MultiLabelHostname, ForeignHostname, Star}

OpsInit ==
    /\ pc = "ops"
    /\ ingress \in { <<CatchAll>>, <<ForeignRule, CatchAll>>,
                     <<OldRule, ForeignRule, CatchAll>> }
    /\ dns \in { {}, {ForeignRecord}, {[name |-> OldHostname, content |-> OtherTarget]} }
    /\ hist = <<>>
    /\ containers = <<>>
    /\ previousContainers = <<>>
    /\ i = 1
    /\ store = DefaultData
    /\ currentData = DefaultData
    /\ activeHostnames = {}
    /\ staleHostnames = {}
    /\ todo = {}
    /\ hostname = <<>>
    /\ dnsStatus = ""
    /\ calls = {}
    /\ failedNow = {}
    /\ failedBefore = {}
    /\ faults = 0
    /\ restarts = 0
    /\ ticks = 0

\* the last two operations
Remember(entry) == IF hist = <<>> THEN <<entry>> ELSE <<hist[Len(hist)], entry>>

OpsFrame ==
    UNCHANGED <<containers, previousContainers, pc, i, store, currentData,
                activeHostnames, staleHostnames, todo, hostname, dnsStatus, calls,
                failedNow, failedBefore, faults, restarts, ticks>>

\* the upsert path of syncContainer: updateTunnelConfig, then manageDNSRecord
OpsUpsert ==
    /\ pc = "ops"
    /\ \E config \in OpsConfigs :
          LET r == ManageDNSRecord(dns, config.hostname)
          IN  /\ ingress' = UpdateIngress(ingress, config)
              /\ dns' = r.records
              /\ hist' = Remember([op |-> "upsert", config |-> config,
                                   ingress |-> ingress', ok |-> r.ok,
                                   status |-> r.status])
    /\ OpsFrame

\* updateTunnelConfig alone, for the hostname of the catch-all
OpsUpdateStar ==
    /\ pc = "ops"
    /\ \E s \in OpsServices :
          LET config == [hostname |-> Star, service |-> s, originRequest |-> <<>>]
          IN  /\ ingress' = UpdateIngress(ingress, config)
              /\ hist' = Remember([op |-> "update", config |-> config,
                                   ingress |-> ingress', ok |-> TRUE, status |-> ""])
    /\ dns' = dns
    /\ OpsFrame

\* deleteTunnelConfig
OpsDelete ==
    /\ pc = "ops"
    /\ \E h \in OpsHostnames :
          /\ dns' = DeleteRecord(dns, h)
          /\ ingress' = DeleteIngress(ingress, h)
          /\ hist' = Remember([op |-> "delete",
                               config |-> [hostname |-> h, service |-> <<>>,
                                           originRequest |-> <<>>],
                               ingress |-> ingress', ok |-> TRUE, status |-> ""])
    /\ OpsFrame

OpsNext == OpsUpsert \/ OpsUpdateStar \/ OpsDelete

OpsSpec == OpsInit /\ [][OpsNext]_vars

-----------------------------------------------------------------------------
(* The deriver on its own: shouldManageTunnel for one container *)

\* hostname labels: one label, a name under the domain, a name under another
\* domain, two labels, a name that ends with the domain's text, the empty text
HostnameLabels ==
    { <<"f">>, <<"f", ".", "x", ".", "c">>, <<"f", ".", "o", ".", "c">>,
      <<"w", ".", "v">>, <<"f", "x", ".", "c">>, <<>> }

\* port labels: two numbers and a text parseInt makes nothing of
PortLabels == { <<"8", "0", "8", "0">>, <<"9", "0">>, <<"p">> }

\* container.Ports as docker lists them: an entry has a PublicPort only when
\* the port is published
PortLists ==
    { <<>>,
      <<[PrivatePort |-> 80, PublicPort |-> 8081]>>,
      <<[PrivatePort |-> 80]>>,
      <<[PrivatePort |-> 443], [PrivatePort |-> 80, PublicPort |-> 8081]>>,
      <<[PrivatePort |-> 80, PublicPort |-> 8081], [PrivatePort |-> 443, PublicPort |-> 8443]>> }

DeriveLabels ==
    {(AssignKey :> TrueText) @@ hl @@ pl :
        hl \in {<<>>} \cup {HostnameKey :> l : l \in HostnameLabels},
        pl \in {<<>>} \cup {PortKey :> l : l \in PortLabels}}
    \cup {<<>>, HostnameKey :> <<"f">>,
          (AssignKey :> TrueText) @@ (OriginRequestKey("connectTimeout") :> <<"p">>),
          (AssignKey :> TrueText) @@ (OriginRequestKey("connectTimeout") :> <<"9", "0">>)}

DeriveContainers ==
    {[Container(NameA, state, labels) EXCEPT !.Ports = ports] :
        state \in States, labels \in DeriveLabels, ports \in PortLists}

DeriveInit ==
    /\ pc = "derive"
    /\ containers \in {<<c>> : c \in DeriveContainers}
    /\ hist = <<>>
    /\ previousContainers = <<>>
    /\ i = 1
    /\ ingress = <<CatchAll>>
    /\ dns = {}
    /\ store = DefaultData
    /\ currentData = DefaultData
    /\ activeHostnames = {}
    /\ staleHostnames = {}
    /\ todo = {}
    /\ hostname = <<>>
    /\ dnsStatus = ""
    /\ calls = {}
    /\ failedNow = {}
    /\ failedBefore = {}
    /\ faults = 0
    /\ restarts = 0
    /\ ticks = 0

\* shouldManageTunnel(container, previousState), as syncContainer calls it
\* (with the state of the previous tick, or undefined) and as the sweep does
Derive ==
    /\ pc = "derive"
    /\ hist = <<>>
    /\ \E previousState \in States \cup {Undefined} :
          hist' = <<[previousState |-> previousState,
                     result |-> ShouldManageTunnel(containers[1], previousState)]>>
    /\ UNCHANGED <<containers, previousContainers, pc, i, ingress, dns, store,
                   currentData, activeHostnames, staleHostnames, todo, hostname,
                   dnsStatus, calls, failedNow, failedBefore, faults, restarts, ticks>>

DeriveSpec == DeriveInit /\ [][Derive]_vars

-----------------------------------------------------------------------------
(* The state store on its own: the file in any condition, reads that may fail *)

SecondHostname == <<"b", ".", "x", ".", "c">>

\* the record syncContainer writes after the ingress mutation
ConfigRecord(h) ==
    [hostname |-> h, tunnelId |-> TunnelId,
     service |-> <<"http", "://localhost:", "80", <<>>>>, configStatus |-> "updated"]

\* a file with two synced hostnames, one of them without its DNS status
TwoData ==
    [OldData EXCEPT !.tunnels = (SecondHostname :> ConfigRecord(SecondHostname)) @@ @]

\* files loadData returns as they are
ValidFiles == {DefaultData, OldData, TwoData}

\* files tunnelDockDataSchema rejects: a record without tunnelId next to a
\* valid one, and a content without the domains map
InvalidFiles ==
    { [TwoData EXCEPT !.tunnels[SecondHostname] =
          [hostname |-> SecondHostname, service |-> <<>>, configStatus |-> "updated"]],
      [containers |-> <<>>, tunnels |-> OldData.tunnels] }

StoreFiles == ValidFiles \cup InvalidFiles \cup {Missing, Garbled}

StoreInit ==
    /\ pc = "store"
    /\ store \in StoreFiles
    /\ hist = <<>>
    /\ containers = <<>>
    /\ previousContainers = <<>>
    /\ i = 1
    /\ ingress = <<CatchAll>>
    /\ dns = {}
    /\ currentData = DefaultData
    /\ activeHostnames = {}
    /\ staleHostnames = {}
    /\ todo = {}
    /\ hostname = <<>>
    /\ dnsStatus = ""
    /\ calls = {}
    /\ failedNow = {}
    /\ failedBefore = {}
    /\ faults = 0
    /\ restarts = 0
    /\ ticks = 0

StoreFrame ==
    UNCHANGED <<previousContainers, pc, i, ingress, dns, currentData, activeHostnames,
                staleHostnames, todo, hostname, dnsStatus, calls, failedNow,
                failedBefore, faults, restarts, ticks>>

\* loadData
StoreLoad ==
    /\ pc = "store"
    /\ \E readable \in BOOLEAN :
          hist' = <<[op |-> "loadData", file |-> store, readable |-> readable,
                     result |-> LoadData(ReadFile(store, readable))]>>
    /\ UNCHANGED <<store, containers>>
    /\ StoreFrame

\* the head of a tick of watchContainers: loadData, then saveData with the snapshot
StoreSnapshot ==
    /\ pc = "store"
    /\ \E snapshot \in Snapshots, readable \in BOOLEAN :
          /\ containers' = snapshot
          /\ store' = SnapshotData(snapshot, LoadData(ReadFile(store, readable)))
          /\ hist' = <<[op |-> "saveData.tick", file |-> store, readable |-> readable,
                        result |-> store']>>
    /\ StoreFrame

\* updateTunnelData for a hostname
StoreUpdateTunnelData ==
    /\ pc = "store"
    /\ \E h \in {OldHostname, SecondHostname}, readable \in BOOLEAN :
          /\ store' = UpdateTunnelData(ReadFile(store, readable), h, ConfigRecord(h))
          /\ hist' = <<[op |-> "updateTunnelData", file |-> store, readable |-> readable,
                        result |-> store']>>
    /\ UNCHANGED containers
    /\ StoreFrame

StoreNext == StoreLoad \/ StoreSnapshot \/ StoreUpdateTunnelData

StoreSpec == StoreInit /\ [][StoreNext]_vars

-----------------------------------------------------------------------------
(* The reconciler on a remote configuration in any condition *)

\* the configuration fetched: without an ingress list, with an empty one, with
\* lists that hold no catch-all, hold it last, or hold it elsewhere
RemoteConfigs ==
    {<<>>} \cup
    {[ingress |-> list] :
        list \in { <<>>, <<ForeignRule>>, <<OldRule>>, <<OldRule, ForeignRule>>,
                   <<ForeignRule, OldRule>>, <<CatchAll>>, <<ForeignRule, CatchAll>>,
                   <<OldRule, ForeignRule, CatchAll>>,
                   <<CatchAll, ForeignRule>> }}

\* originRequest labels: none; a number and a boolean in capitals; a number
\* that reads 0, a boolean and a setting that has no default; a boolean that
\* reads false and a number that has no default
OriginLabelSets ==
    { <<>>,
      (OriginRequestKey("connectTimeout") :> <<"3", "0">>)
         @@ (OriginRequestKey("noTLSVerify") :> <<"T", "R", "U", "E">>),
      (OriginRequestKey("tcpKeepAlive") :> <<"0">>)
         @@ (OriginRequestKey("http2Origin") :> TrueText)
         @@ (OriginRequestKey("httpHostHeader") :> <<"h">>),
      (OriginRequestKey("disableChunkedEncoding") :> <<"f", "a", "l", "s", "e">>)
         @@ (OriginRequestKey("keepAliveTimeout") :> <<"9", "0">>) }

\* the originRequest of the declarations shouldManageTunnel makes of them
DeclaredOriginRequests ==
    {ParseDotNotationLabels(labels).originRequest : labels \in OriginLabelSets}

RepairConfigs ==
    {[hostname |-> h, service |-> srv, originRequest |-> declared] :
        h \in {OldHostname, MultiLabelHostname, SecondHostname}, srv \in OpsServices,
        declared \in DeclaredOriginRequests}

RepairHostnames == {OldHostname, MultiLabelHostname, SecondHostname, ForeignHostname, Star}

\* hist[1] is the configuration the provider holds
RepairInit ==
    /\ pc = "repair"
    /\ \E remote \in RemoteConfigs :
          /\ hist = <<[op |-> "fetched", remote |-> remote]>>
          /\ ingress = FetchedForDelete(remote)
    /\ dns = {}
    /\ containers = <<>>
    /\ previousContainers = <<>>
    /\ i = 1
    /\ store = DefaultData
    /\ currentData = DefaultData
    /\ activeHostnames = {}
    /\ staleHostnames = {}
    /\ todo = {}
    /\ hostname = <<>>
    /\ dnsStatus = ""
    /\ calls = {}
    /\ failedNow = {}
    /\ failedBefore = {}
    /\ faults = 0
    /\ restarts = 0
    /\ ticks = 0

RepairFrame ==
    UNCHANGED <<containers, previousContainers, pc, i, dns, store, currentData,
                activeHostnames, staleHostnames, todo, hostname, dnsStatus, calls,
                failedNow, failedBefore, faults, restarts, ticks>>

\* updateTunnelConfig on the configuration fetched
RepairUpdate ==
    /\ pc = "repair"
    /\ Len(hist) = 1
    /\ \E config \in RepairConfigs :
          /\ ingress' = UpdateIngress(FetchedForUpdate(hist[1].remote), config)
          /\ hist' = Append(hist, [op |-> "updateTunnelConfig", config |-> config,
                                    hostname |-> config.hostname, written |-> ingress'])
    /\ RepairFrame

\* deleteTunnelConfig on the configuration fetched
RepairDelete ==
    /\ pc = "repair"
    /\ Len(hist) = 1
    /\ \E h \in RepairHostnames :
          /\ ingress' = DeleteIngress(FetchedForDelete(hist[1].remote), h)
          /\ hist' = Append(hist, [op |-> "deleteTunnelConfig",
                                    hostname |-> h, written |-> ingress'])
    /\ RepairFrame

RepairNext == RepairUpdate \/ RepairDelete

RepairSpec == RepairInit /\ [][RepairNext]_vars

-----------------------------------------------------------------------------
(* What the properties speak of *)

\* the container carries the assign label and it reads true, in any letter case
DeclaresAssign(container) ==
    /\ AssignKey \in DOMAIN container.Labels
    /\ ToLowerCase(container.Labels[AssignKey]) = TrueText

\* the hostname the container's labels and name stand for
DerivedHostname(container) ==
    ResolveHostname(ParseDotNotationLabels(container.Labels), container)

\* the container declares hostname h: assign is true and h is its hostname
Declares(container, h) == DeclaresAssign(container) /\ DerivedHostname(container) = h

HasRule(h) == \E k \in 1..Len(ingress) : ingress[k].hostname = h

HasRecord(h) == \E r \in dns : r.name = h

ProviderOps ==
    {"updateTunnelConfig", "manageDNSRecord", "deleteTunnelConfig.dns",
     "deleteTunnelConfig.ingress"}

StoreOps ==
    {"saveData.tick", "updateTunnelData.config", "updateTunnelData.dns", "saveData.sweep"}

\* the sweep of this tick has computed its sets and not yet saved
Sweeping == pc \in {"retract", "retractIngress", "save"}

\* the state the previous tick saw the container of this name in, if it saw it
SeenBefore(container, state) ==
    \E j \in 1..Len(previousContainers) :
        /\ previousContainers[j].Names[1] = container.Names[1]
        /\ previousContainers[j].State = state

-----------------------------------------------------------------------------
(* C1 *)

\* C1: from a list whose only catch-all rule is its last element, every list
\* that upserts and retractions write back, in any order and for any
\* hostname, holds exactly one rule with hostname * and holds it last.
C1_CatchAllLast ==
    pc = "ops" =>
        /\ Len(ingress) >= 1
        /\ ingress[Len(ingress)].hostname = Star
        /\ Cardinality({k \in 1..Len(ingress) : ingress[k].hostname = Star}) = 1

\* an upsert inserted a rule, a retraction followed, and rules are left
C1_Witness ==
    /\ pc = "ops"
    /\ Len(hist) = 2
    /\ hist[1].op = "upsert"
    /\ Len(hist[1].ingress) >= 3
    /\ hist[2].op = "delete"
    /\ Len(ingress) = Len(hist[1].ingress) - 1
    /\ Len(ingress) >= 2

-----------------------------------------------------------------------------
(* C2 *)

\* C2: for a container the loop saw running in the previous tick and sees
\* running in this tick, this tick makes no ingress call, no DNS call and no
\* record write: the upsert path fired on the transition tick only.
C2_EdgeTrigger ==
    \A k \in 1..Len(containers) :
        (containers[k].State = "running" /\ SeenBefore(containers[k], "running"))
            => ~\E e \in calls : e.by = k

\* a second tick has run to its end for a container that stayed running and
\* was synced on its transition tick
C2_Witness ==
    /\ pc = "sleep"
    /\ \E k \in 1..Len(containers) :
          /\ containers[k].State = "running"
          /\ SeenBefore(containers[k], "running")
          /\ DeclaresAssign(containers[k])
          /\ DerivedHostname(containers[k]) \in DOMAIN store.tunnels
          /\ HasRule(DerivedHostname(containers[k]))
          /\ ~\E e \in calls : e.by = k

-----------------------------------------------------------------------------
(* C10 *)

\* C10: a container whose assign label is absent or does not read true is
\* never managed: in no tick, whatever its state and previous state, is an
\* ingress call, a DNS call or a record write made for it, and the sweep's
\* active set holds only hostnames that a container with assign true declares.
C10_UnassignedUntouched ==
    /\ \A k \in 1..Len(containers) :
          ~DeclaresAssign(containers[k]) => ~\E e \in calls : e.by = k
    /\ \A h \in activeHostnames :
          \E k \in 1..Len(containers) : Declares(containers[k], h)

\* a tick has run to its end with a container without assign that has just
\* come to run, while another container was synced
C10_Witness ==
    /\ pc = "sleep"
    /\ \E k \in 1..Len(containers) :
          /\ ~DeclaresAssign(containers[k])
          /\ HostnameKey \in DOMAIN containers[k].Labels
          /\ containers[k].State = "running"
          /\ ~SeenBefore(containers[k], "running")
          /\ DerivedHostname(containers[k]) \notin activeHostnames
          /\ \E e \in calls : e.by # k /\ e.op = "updateTunnelConfig" /\ e.ok

-----------------------------------------------------------------------------
(* C3 *)

\* the provider accepted every call the sweep of this tick made
SweepAccepted ==
    \A e \in calls :
        e.op \in {"deleteTunnelConfig.dns", "deleteTunnelConfig.ingress"} => e.ok

\* C3: when cleanupStaleRecords has returned and the provider accepted its
\* calls, every hostname that was a key of the persisted tunnel map and not
\* desired is gone from the tunnel map and the domain map, has no ingress
\* rule and no CNAME record of its name; the keys left are all declared.
C3_SweepCompleteness ==
    (pc = "sleep" /\ SweepAccepted) =>
        /\ \A h \in staleHostnames :
              /\ h \notin DOMAIN store.tunnels
              /\ h \notin DOMAIN store.domains
              /\ ~HasRule(h)
              /\ ~HasRecord(h)
        /\ \A h \in DOMAIN store.tunnels :
              \E k \in 1..Len(containers) : Declares(containers[k], h)

\* a sweep has retracted a hostname that had a rule, a record, a sync record
\* and a domain record
C3_Witness ==
    /\ pc = "sleep"
    /\ SweepAccepted
    /\ OldHostname \in staleHostnames
    /\ [op |-> "deleteTunnelConfig.ingress", host |-> OldHostname, by |-> 0, ok |-> TRUE]
          \in calls
    /\ [op |-> "saveData.sweep", host |-> <<>>, by |-> 0, ok |-> TRUE] \in calls
    /\ restarts = 0
    /\ ticks = 1
    /\ ~HasRule(OldHostname)
    /\ ~HasRecord(OldHostname)
    /\ OldHostname \notin DOMAIN store.domains

-----------------------------------------------------------------------------
(* C4 *)

\* C4 as stated: a container in the snapshot with assign true that is not
\* running counts as desired, and the sweep of the tick leaves its hostname
\* alone.
C4_StoppedStaysDesired ==
    (Sweeping \/ pc = "sleep") =>
        \A k \in 1..Len(containers) :
            (DeclaresAssign(containers[k]) /\ containers[k].State # "running")
                => DerivedHostname(containers[k]) \notin staleHostnames

\* a running container with assign true declares h
DeclaredRunning(h) ==
    \E k \in 1..Len(containers) :
        Declares(containers[k], h) /\ containers[k].State = "running"

\* C4 as amended: only a running container with assign true counts as
\* desired.  The hostname of a container that is in the snapshot with assign
\* true but not running, if it is a key of the persisted tunnel map and no
\* running container declares it, is stale: the sweep retracts it, and once
\* the sweep has returned with its calls accepted the sync record, the rule
\* and the CNAME record of that name are gone.
C4_StoppedIsRetracted ==
    \A k \in 1..Len(containers) :
        LET h == DerivedHostname(containers[k])
        IN  ( /\ DeclaresAssign(containers[k])
              /\ containers[k].State # "running"
              /\ ~DeclaredRunning(h) )
            => /\ Sweeping => (h \in DOMAIN store.tunnels => h \in staleHostnames)
               /\ (Sweeping \/ pc = "sleep") => h \notin activeHostnames
               /\ (pc = "sleep" /\ SweepAccepted) =>
                      /\ h \notin DOMAIN store.tunnels
                      /\ h \in staleHostnames => (~HasRule(h) /\ ~HasRecord(h))

\* the sweep has retracted the hostname of a stopped container with assign true
C4_Witness ==
    /\ pc = "sleep"
    /\ \E k \in 1..Len(containers) :
          LET h == DerivedHostname(containers[k])
          IN  /\ DeclaresAssign(containers[k])
              /\ containers[k].State = "exited"
              /\ h \in staleHostnames
              /\ [op |-> "deleteTunnelConfig.ingress", host |-> h, by |-> 0, ok |-> TRUE]
                    \in calls
              /\ h \notin DOMAIN store.tunnels
              /\ ~HasRule(h)

-----------------------------------------------------------------------------
(* C5 *)

\* C5: a container whose upsert the provider rejected, and which stays
\* running with the same labels, has its ingress call repeated in the next
\* tick.
C5_FailedUpsertRetried ==
    pc = "sleep" =>
        \A name \in failedBefore :
            \E e \in calls :
                /\ e.op = "updateTunnelConfig"
                /\ e.by >= 1
                /\ containers[e.by].Names[1] = name

-----------------------------------------------------------------------------
(* C6 *)

\* C6: the upsert path run twice in succession with the same declaration:
\* the second run leaves the ingress list as the first left it, with one rule
\* for the hostname, and its manageDNSRecord returns unchanged.
C6_UpsertIdempotent ==
    ( /\ pc = "ops"
      /\ Len(hist) = 2
      /\ hist[1].op = "upsert" /\ hist[1].ok
      /\ hist[2].op = "upsert"
      /\ hist[2].config = hist[1].config )
    => /\ hist[2].ingress = hist[1].ingress
       /\ Cardinality({k \in 1..Len(ingress) :
                          ingress[k].hostname = hist[2].config.hostname}) = 1
       /\ hist[2].ok
       /\ hist[2].status = "unchanged"

-----------------------------------------------------------------------------
(* C7 *)

\* C7: a provider call rejected in the upsert of a container or in the
\* retraction of a stale hostname does not end the tick: the loop goes to the
\* next container, or to the sweep after the last one; the sweep goes to the
\* next stale hostname, or to its save after the last one.
C7_ProviderErrorContained ==
    [][ \A e \in calls' \ calls :
            (e.op \in ProviderOps /\ ~e.ok) =>
                /\ pc' # "stopped"
                /\ e.by >= 1 =>
                      /\ i' = i + 1
                      /\ pc' = IF i + 1 > Len(containers) THEN "sweep" ELSE "sync"
                /\ e.by = 0 =>
                      /\ todo' = todo \ {e.host}
                      /\ pc' = IF todo' = {} THEN "save" ELSE "retract" ]_vars

\* a tick has run to its end although the upsert of its first container was
\* rejected: the second container was synced and the sweep retracted a hostname
C7_Witness ==
    /\ pc = "sleep"
    /\ \E e \in calls : e.op = "updateTunnelConfig" /\ e.by = 1 /\ ~e.ok
    /\ \E e \in calls : e.op = "manageDNSRecord" /\ e.by = 2 /\ e.ok
    /\ \E e \in calls : e.op = "deleteTunnelConfig.ingress" /\ e.ok

-----------------------------------------------------------------------------
(* C8 *)

\* C8: a store write that raises, at any of its call sites, does not end the
\* poll loop.
C8_StoreErrorContained ==
    [][ \A e \in calls' \ calls : (e.op \in StoreOps /\ ~e.ok) => pc' # "stopped" ]_vars

-----------------------------------------------------------------------------
(* C9 *)

\* C9: a hostname that is a key of the persisted tunnel map and that no
\* container of the snapshot declares is stale in the sweep of that tick,
\* whatever previousContainers holds, also when it is empty after a restart:
\* the sweep calls deleteTunnelConfig for it, and when those calls are
\* accepted its rule, its CNAME record and its sync record are gone at the
\* end of the tick.
C9_LevelTriggeredRemoval ==
    /\ Sweeping =>
          \A h \in DOMAIN store.tunnels :
              (\A k \in 1..Len(containers) : ~Declares(containers[k], h))
                  => h \in staleHostnames
    /\ pc = "sleep" =>
          \A h \in staleHostnames :
              /\ \E e \in calls : e.op = "deleteTunnelConfig.dns" /\ e.host = h
              /\ (\A e \in calls : e.host = h => e.ok) =>
                    (~HasRule(h) /\ ~HasRecord(h) /\ h \notin DOMAIN store.tunnels)

\* the first tick after a restart has retracted a hostname that this process
\* never saw a container for
C9_Witness ==
    /\ pc = "sleep"
    /\ restarts = 1
    /\ previousContainers = <<>>
    /\ \E h \in staleHostnames :
          /\ \A k \in 1..Len(containers) : ~Declares(containers[k], h)
          /\ [op |-> "deleteTunnelConfig.ingress", host |-> h, by |-> 0, ok |-> TRUE]
                \in calls
          /\ ~HasRule(h) /\ ~HasRecord(h) /\ h \notin DOMAIN store.tunnels

-----------------------------------------------------------------------------
(* C12 *)

\* the container shouldManageTunnel was applied to, and the config it gave
Derived == pc = "derive" /\ hist # <<>> /\ hist[1].result.hasConfig

\* the hostname label of the container, the empty text when it has none
DeclaredHostname(container) ==
    IF HostnameKey \in DOMAIN container.Labels
    THEN container.Labels[HostnameKey] ELSE <<>>

\* the last n characters of s are the base domain x.c
UnderDomain(s) ==
    /\ Len(s) >= 3
    /\ s[Len(s) - 2] = "x" /\ s[Len(s) - 1] = "." /\ s[Len(s)] = "c"

\* C12: the hostname of every derived config ends with the base domain.
\* Without a hostname label (or with an empty one) it is the container's
\* name, without its slash, then a dot and the base domain; a label that ends
\* with the base domain is the hostname as it stands; any other label is
\* followed by a dot and the base domain (f gives f.x.c, f.o.c gives f.o.c.x.c).
C12_HostnameQualified ==
    Derived =>
        LET h == hist[1].result.config.hostname
            declared == DeclaredHostname(containers[1])
        IN  /\ UnderDomain(h)
            /\ declared = <<>> => h = Tail(containers[1].Names[1]) \o <<".", "x", ".", "c">>
            /\ (declared # <<>> /\ UnderDomain(declared)) => h = declared
            /\ (declared # <<>> /\ ~UnderDomain(declared))
                    => h = declared \o <<".", "x", ".", "c">>
            /\ declared = <<"f">> => h = <<"f", ".", "x", ".", "c">>
            /\ declared = <<"f", ".", "o", ".", "c">>
                    => h = <<"f", ".", "o", ".", "c", ".", "x", ".", "c">>

\* a hostname declared under another domain has been qualified
C12_Witness ==
    /\ Derived
    /\ DeclaredHostname(containers[1]) = <<"f", ".", "o", ".", "c">>
    /\ hist[1].result.config.hostname = <<"f", ".", "o", ".", "c", ".", "x", ".", "c">>

-----------------------------------------------------------------------------
(* C11 *)

\* the hostnames a container of the snapshot declares with assign true
DeclaredHostnames ==
    {DerivedHostname(containers[k]) :
        k \in {j \in 1..Len(containers) : DeclaresAssign(containers[j])}}

\* the rules of the list, in their order, whose hostname is not in the set
RulesOutside(list, managed) == SelectSeq(list, LAMBDA rule : rule.hostname \notin managed)

\* the ingress list alone: the rules of hostnames that no container declares
\* and that are no key of the persisted tunnel map stay as they are, in their order
IngressFrame ==
    [][ RulesOutside(ingress', DeclaredHostnames \cup DOMAIN store.tunnels)
          = RulesOutside(ingress, DeclaredHostnames \cup DOMAIN store.tunnels) ]_vars

\* C11: in every step of the loop, the rules whose hostname no container
\* with assign true declares and that is no key of the persisted tunnel map
\* stay as they are and in their order, and no CNAME record of such a name
\* is created, changed or deleted.
C11_OnlyManagedTouched ==
    [][ /\ RulesOutside(ingress', DeclaredHostnames \cup DOMAIN store.tunnels)
           = RulesOutside(ingress, DeclaredHostnames \cup DOMAIN store.tunnels)
        /\ \A r \in (dns' \ dns) \cup (dns \ dns') :
              r.name \in DeclaredHostnames \cup DOMAIN store.tunnels ]_vars

-----------------------------------------------------------------------------
(* C13 *)

\* the step is an upsert whose manageDNSRecord call returned
UpsertReturned ==
    /\ pc = "ops"
    /\ hist' # hist \/ dns' # dns
    /\ hist'[Len(hist')].op = "upsert"
    /\ hist'[Len(hist')].ok

\* what C13 says of an upsert step for hostname h that returned status
DnsUpsertResult(h, status) ==
    LET found == {r \in dns : r.name = h}
    IN  /\ found = {} => status = "created"
        /\ (found # {} /\ \E r \in found : r.content # Target) => status = "updated"
        /\ (found # {} /\ \A r \in found : r.content = Target)
                => (status = "unchanged" /\ dns' = dns)
        /\ Cardinality({r \in dns' : r.name = h}) = 1
        /\ \A r \in dns' : r.name = h => r.content = Target

\* C13: manageDNSRecord, by the records of the exact hostname: none, it
\* creates one and returns created; one with another target, it updates and
\* returns updated; one with the tunnel's target, it changes nothing and
\* returns unchanged.  After a call that returned, the zone holds exactly one
\* CNAME record named by the full hostname, and its target is the tunnel's.
C13_DnsUpsertResult ==
    [][ UpsertReturned =>
            DnsUpsertResult(hist'[Len(hist')].config.hostname,
                            hist'[Len(hist')].status) ]_vars

\* manageDNSRecord for the hostnames with one label in front of the base domain
SingleLabelDnsUpsert ==
    [][ (UpsertReturned /\ hist'[Len(hist')].config.hostname = OldHostname) =>
            DnsUpsertResult(hist'[Len(hist')].config.hostname,
                            hist'[Len(hist')].status) ]_vars

-----------------------------------------------------------------------------
(* C14 *)

\* the step is an updateTunnelConfig call that wrote the list back
ConfigWritten ==
    /\ pc = "ops"
    /\ hist' # hist \/ ingress' # ingress
    /\ hist'[Len(hist')].op \in {"upsert", "update"}

\* what C14 says of the list written for the declaration, from the list fetched
UpsertPlacement(before, after, config) ==
    LET at == {k \in 1..Len(before) : before[k].hostname = config.hostname}
    IN  IF at # {}
        THEN LET index == CHOOSE k \in at : \A j \in at : k <= j
             IN  /\ Len(after) = Len(before)
                 /\ after[index].hostname = config.hostname
                 /\ after[index].service = config.service
                 /\ \A k \in 1..Len(before) : k # index => after[k] = before[k]
        ELSE /\ Len(after) = Len(before) + 1
             /\ after[Len(after)] = before[Len(before)]
             /\ after[Len(after)].hostname = Star
             /\ after[Len(after) - 1].hostname = config.hostname
             /\ after[Len(after) - 1].service = config.service
             /\ \A k \in 1..(Len(before) - 1) : after[k] = before[k]

\* C14: updateTunnelConfig for hostname h puts the new rule at the index of
\* the rule the fetched list has for h, and without one right before the
\* trailing catch-all; every other rule keeps its content and its place among
\* the others, and the list grows by one in the second case only.
C14_UpsertPlacement ==
    [][ ConfigWritten =>
            UpsertPlacement(ingress, ingress', hist'[Len(hist')].config) ]_vars

\* a rule has been inserted between two rules kept and the catch-all
C14_Witness ==
    /\ pc = "ops"
    /\ Len(hist) = 2
    /\ hist[2].op = "upsert"
    /\ Len(hist[2].ingress) = Len(hist[1].ingress) + 1
    /\ ingress = hist[2].ingress
    /\ Len(ingress) = 4
    /\ ingress[3].hostname = hist[2].config.hostname
    /\ ingress[4].hostname = Star
    /\ \A k \in 1..2 : ingress[k] = hist[1].ingress[k]

-----------------------------------------------------------------------------
(* C15 *)

\* the upsert of containers[i] is under way
Upserting == pc \in {"record1", "dns", "record2"}

\* the provider accepted this call of this tick for containers[i]
AcceptedFor(op) ==
    [op |-> op, host |-> Managed.config.hostname, by |-> i, ok |-> TRUE] \in calls

\* the file holds a sync record of the hostname with configStatus updated
RecordedIn(file, h) ==
    /\ h \in DOMAIN file.tunnels
    /\ file.tunnels[h].configStatus = "updated"

\* C15: in an upsert the sync record of the hostname is written after
\* updateTunnelConfig was accepted, with configStatus updated, and again
\* after manageDNSRecord returned, with the status it returned; the step of
\* updateTunnelConfig itself writes nothing, and no record is written in an
\* upsert whose updateTunnelConfig was not accepted; when manageDNSRecord is
\* rejected, or the process stops between the two writes, the file is left
\* as the first write made it, and the record is there at the end of the tick.
C15_TwoStepRecord ==
    [][ /\ pc = "sync" => store' = store
        /\ (Upserting /\ store' # store) => AcceptedFor("updateTunnelConfig")
        /\ (pc = "record1" /\ pc' = "dns") =>
              /\ AcceptedFor("updateTunnelConfig")
              /\ RecordedIn(store', Managed.config.hostname)
        /\ (pc = "record2" /\ store' # store) =>
              /\ AcceptedFor("manageDNSRecord")
              /\ RecordedIn(store', Managed.config.hostname)
              /\ store'.tunnels[Managed.config.hostname].dnsStatus = dnsStatus
              /\ dnsStatus \in {"created", "updated", "unchanged"}
        /\ (pc = "dns" /\ pc' # "record2") =>
              /\ store' = store
              /\ RecordedIn(store', Managed.config.hostname)
        /\ pc' = "sleep" =>
              \A e \in calls' :
                  (e.op = "updateTunnelData.config" /\ e.ok) => RecordedIn(store', e.host)
      ]_vars

\* a tick has ended with the record of an upsert whose ingress call was
\* accepted and whose DNS call was rejected: no DNS status in it
C15_Witness ==
    /\ pc = "sleep"
    /\ \E e \in calls :
          /\ e.op = "manageDNSRecord" /\ ~e.ok
          /\ [op |-> "updateTunnelData.config", host |-> e.host, by |-> e.by, ok |-> TRUE]
                \in calls
          /\ RecordedIn(store, e.host)
          /\ "dnsStatus" \notin DOMAIN store.tunnels[e.host]

-----------------------------------------------------------------------------
(* C16 *)

\* C16: the snapshot write at the head of a tick, for a file that holds a
\* valid structure, writes the snapshot as the container list and leaves the
\* tunnel map and the domain map as they were in the file.
C16_SnapshotKeepsMaps ==
    ( /\ pc = "store"
      /\ hist # <<>>
      /\ hist[1].op = "saveData.tick"
      /\ hist[1].file \notin InvalidFiles \cup {Missing, Garbled} )
    => /\ store.containers = containers
       /\ store.tunnels = hist[1].file.tunnels
       /\ store.domains = hist[1].file.domains

-----------------------------------------------------------------------------
(* C18 *)

\* the structure without containers, tunnels and domains
EmptyStructure == [containers |-> <<>>, tunnels |-> <<>>, domains |-> <<>>]

\* C18: loadData always returns a structure: the stored one when the file is
\* there, is read and validates; the empty default when the file is missing,
\* cannot be read, is not JSON or fails the schema.  It never throws.
C18_LoadNeverFails ==
    (pc = "store" /\ hist # <<>> /\ hist[1].op = "loadData") =>
        /\ DOMAIN hist[1].result = {"containers", "tunnels", "domains"}
        /\ (hist[1].readable /\ hist[1].file \notin InvalidFiles \cup {Missing, Garbled})
              => hist[1].result = hist[1].file
        /\ (~hist[1].readable \/ hist[1].file \in InvalidFiles \cup {Missing, Garbled})
              => hist[1].result = EmptyStructure

\* loadData has given the default for a file with a record the schema rejects
C18_Witness ==
    /\ pc = "store"
    /\ hist # <<>>
    /\ hist[1].op = "loadData"
    /\ hist[1].readable
    /\ "tunnels" \in DOMAIN hist[1].file
    /\ OldHostname \in DOMAIN hist[1].file.tunnels
    /\ hist[1].result = EmptyStructure

-----------------------------------------------------------------------------
(* C17 *)

\* the number a port label of the containers tried stands for
PortLabelNumber(label) == IF label = <<"8", "0", "8", "0">> THEN 8080 ELSE 90

\* the entries of the container's port list that carry a public port
Published(container) ==
    {k \in 1..Len(container.Ports) : "PublicPort" \in DOMAIN container.Ports[k]}

\* the port C17 names for the container
ExpectedPort(container) ==
    IF PortKey \in DOMAIN container.Labels
    THEN PortLabelNumber(container.Labels[PortKey])
    ELSE IF Published(container) # {}
         THEN container.Ports[CHOOSE k \in Published(container) :
                                  \A j \in Published(container) : k <= j].PublicPort
         ELSE 80

\* C17: the port of the derived config and of its service URL is the value
\* of the port label when the container has one, otherwise the public port
\* of the first entry of the container's port list that is published,
\* otherwise 80.
C17_PortResolution ==
    Derived =>
        /\ hist[1].result.config.port = ExpectedPort(containers[1])
        /\ hist[1].result.config.service[3] = ToString(ExpectedPort(containers[1]))

\* the port taken when the first entry of the port list is looked at alone
FirstEntryPort ==
    Derived =>
        hist[1].result.config.port =
            IF PortKey \in DOMAIN containers[1].Labels
            THEN PortLabelNumber(containers[1].Labels[PortKey])
            ELSE IF 1 \in Published(containers[1])
                 THEN containers[1].Ports[1].PublicPort
                 ELSE 80

-----------------------------------------------------------------------------
(* C19 *)

\* the file holds a domain record of the hostname, with the tunnel's target
DomainRecorded(h) ==
    /\ h \in DOMAIN store.domains
    /\ store.domains[h].hostname = h
    /\ store.domains[h].target = Target

\* C19: once the upsert of a hostname has run to its end in this tick, the
\* file holds a domain record of the hostname next to its sync record; and
\* the sweep, its calls accepted, leaves neither for a stale hostname.
C19_DomainRecordLifecycle ==
    /\ \A e \in calls :
          (e.op = "updateTunnelData.dns" /\ e.ok) =>
              (e.host \in DOMAIN store.tunnels /\ DomainRecorded(e.host))
    /\ (pc = "sleep" /\ SweepAccepted) =>
          \A h \in staleHostnames :
              h \notin DOMAIN store.tunnels /\ h \notin DOMAIN store.domains

\* the sweep's half: a stale hostname has neither record once the sweep is done
SweepDeletesBoth ==
    (pc = "sleep" /\ SweepAccepted) =>
        \A h \in staleHostnames :
            h \notin DOMAIN store.tunnels /\ h \notin DOMAIN store.domains

-----------------------------------------------------------------------------
(* C20 *)

\* the configuration fetched has no ingress list, or a list without a * rule
\* (the empty list among them)
WithoutCatchAll(remote) ==
    \/ "ingress" \notin DOMAIN remote
    \/ \A k \in 1..Len(remote.ingress) : remote.ingress[k].hostname # Star

\* the list ends with the catch-all rule
EndsWithCatchAll(list) ==
    /\ Len(list) >= 1
    /\ list[Len(list)].hostname = Star
    /\ list[Len(list)].service = <<"http_status:404">>

\* C20: from a fetched configuration without an ingress list, with an empty
\* list or with a list that has no * rule, the list updateTunnelConfig writes
\* back and the list deleteTunnelConfig writes back end with the catch-all
\* rule (*, http_status:404).
C20_CatchAllRestored ==
    (pc = "repair" /\ Len(hist) = 2 /\ WithoutCatchAll(hist[1].remote))
        => EndsWithCatchAll(hist[2].written)

\* the same for deleteTunnelConfig alone
DeleteRestoresCatchAll ==
    ( /\ pc = "repair" /\ Len(hist) = 2 /\ WithoutCatchAll(hist[1].remote)
      /\ hist[2].op = "deleteTunnelConfig" )
        => EndsWithCatchAll(hist[2].written)

\* the same for updateTunnelConfig on a configuration without an ingress list
UpdateInitialisesCatchAll ==
    ( /\ pc = "repair" /\ Len(hist) = 2 /\ "ingress" \notin DOMAIN hist[1].remote
      /\ hist[2].op = "updateTunnelConfig" )
        => EndsWithCatchAll(hist[2].written)

-----------------------------------------------------------------------------
(* C21 *)

\* updateTunnelConfig has written a list back
UpdateWritten == pc = "repair" /\ Len(hist) = 2 /\ hist[2].op = "updateTunnelConfig"

\* the rule of the declaration's hostname in the list written
WrittenRule == hist[2].written[FindIndex(hist[2].written, hist[2].hostname)]

\* C21: the originRequest of the rule updateTunnelConfig writes has, for each
\* of connectTimeout, disableChunkedEncoding, http2Origin, noTLSVerify and
\* tcpKeepAlive, the declaration's value when the declaration sets the field
\* and otherwise the default (0, false, false, false, 30), and carries every
\* other field the declaration sets unchanged.
C21_OriginRequestMerge ==
    UpdateWritten =>
        LET declared == hist[2].config.originRequest
            written == WrittenRule.originRequest
        IN  /\ FindIndex(hist[2].written, hist[2].hostname) # 0
            /\ written.connectTimeout =
                  IF "connectTimeout" \in DOMAIN declared THEN declared.connectTimeout ELSE 0
            /\ written.disableChunkedEncoding =
                  IF "disableChunkedEncoding" \in DOMAIN declared
                  THEN declared.disableChunkedEncoding ELSE FALSE
            /\ written.http2Origin =
                  IF "http2Origin" \in DOMAIN declared THEN declared.http2Origin ELSE FALSE
            /\ written.noTLSVerify =
                  IF "noTLSVerify" \in DOMAIN declared THEN declared.noTLSVerify ELSE FALSE
            /\ written.tcpKeepAlive =
                  IF "tcpKeepAlive" \in DOMAIN declared THEN declared.tcpKeepAlive ELSE 30
            /\ \A field \in DOMAIN declared : written[field] = declared[field]
            /\ DOMAIN written =
                  {"connectTimeout", "disableChunkedEncoding", "http2Origin",
                   "noTLSVerify", "tcpKeepAlive"} \cup DOMAIN declared

\* the rule of a hostname that had one was written again from labels that set
\* tcpKeepAlive to 0, http2Origin to true and httpHostHeader
C21_Witness ==
    /\ UpdateWritten
    /\ hist[1].remote = [ingress |-> <<OldRule, ForeignRule, CatchAll>>]
    /\ hist[2].hostname = OldHostname
    /\ hist[2].config.originRequest =
          [tcpKeepAlive |-> 0, http2Origin |-> TRUE, httpHostHeader |-> <<"h">>]
    /\ WrittenRule.originRequest =
          [connectTimeout |-> 0, disableChunkedEncoding |-> FALSE, http2Origin |-> TRUE,
           noTLSVerify |-> FALSE, tcpKeepAlive |-> 0, httpHostHeader |-> <<"h">>]
    /\ Len(hist[2].written) = 3

-----------------------------------------------------------------------------
(* C22 *)

\* the sweep of this tick has called deleteTunnelConfig for h
RetractionAttempted(h) ==
    \E e \in calls : e.op = "deleteTunnelConfig.dns" /\ e.host = h /\ e.by = 0

\* the provider accepted every call the sweep of this tick made for h
RetractionAccepted(h) == \A e \in calls : (e.host = h /\ e.by = 0) => e.ok

-----------------------------------------------------------------------------
(* C23 *)

\* updateTunnelConfig wrote a rule of h in this tick and the sweep of the tick
\* has not taken it out
InsertedAndKept(h) ==
    /\ \E e \in calls : e.op = "updateTunnelConfig" /\ e.host = h /\ e.ok
    /\ ~\E e \in calls : e.op = "deleteTunnelConfig.ingress" /\ e.host = h /\ e.ok
    /\ HasRule(h)

\* C23: at the end of a tick, every ingress rule the engine inserted and has
\* not retracted has its hostname as a key of the persisted tunnel map, also
\* when a store write failed right after the ingress mutation.
C23_NoOrphanedRoutes ==
    pc = "sleep" =>
        \A e \in calls : InsertedAndKept(e.host) => e.host \in DOMAIN store.tunnels

\* the same for the ticks in which no store write failed
RoutesRecordedWhenWritesSucceed ==
    (pc = "sleep" /\ \A e \in calls : e.op \in StoreOps => e.ok) =>
        \A e \in calls : InsertedAndKept(e.host) => e.host \in DOMAIN store.tunnels

-----------------------------------------------------------------------------
(* C24 *)

\* the previous tick saw a container of this name running, and what it
\* declared then was not the hostname h
RunningWithOtherDeclaration(container, h) ==
    \E j \in 1..Len(previousContainers) :
        /\ previousContainers[j].Names[1] = container.Names[1]
        /\ previousContainers[j].State = "running"
        /\ ~Declares(previousContainers[j], h)

\* the upsert path of this tick ran for containers[k] and hostname h
UpsertCalled(k, h) ==
    /\ \E e \in calls : e.op = "updateTunnelConfig" /\ e.host = h /\ e.by = k
    /\ \E e \in calls : e.op = "manageDNSRecord" /\ e.host = h /\ e.by = k

\* C24: a container seen running in two consecutive ticks whose declaration
\* differs between them (recreated between the polls with another hostname
\* label, say) has the hostname it declares now upserted by the end of the
\* second tick: updateTunnelConfig and manageDNSRecord were called for it.
C24_ChangedDeclarationUpserted ==
    pc = "sleep" =>
        \A k \in 1..Len(containers) :
            ( /\ containers[k].State = "running"
              /\ DeclaresAssign(containers[k])
              /\ RunningWithOtherDeclaration(containers[k], DerivedHostname(containers[k])) )
                => UpsertCalled(k, DerivedHostname(containers[k]))

\* what does happen in that tick: no call at all is made for the container
ChangedDeclarationNotSynced ==
    pc = "sleep" =>
        \A k \in 1..Len(containers) :
            ( /\ containers[k].State = "running"
              /\ RunningWithOtherDeclaration(containers[k], DerivedHostname(containers[k])) )
                => ~\E e \in calls : e.by = k

-----------------------------------------------------------------------------
(* C25 *)

\* shouldManageTunnel raises for the container syncContainer is called with
DerivationFails == pc = "sync" /\ Managed.throws

\* C25: when deriving the declaration of a container raises (its port label
\* is not a number), the loop goes on as after any other container: to the
\* next container of the tick, or to the sweep after the last one, and so to
\* later ticks.
C25_DerivationFailureIsolated ==
    [][ (DerivationFails /\ restarts' = restarts) =>
            /\ i' = i + 1
            /\ pc' = IF i + 1 > Len(containers) THEN "sweep" ELSE "sync" ]_vars

\* shouldManageTunnel raises for every container with a port label or a
\* connectTimeout label that is not a number, and for no other
RejectedLabelsRaise ==
    (pc = "derive" /\ hist # <<>>) =>
        (hist[1].result.throws <=>
            \E key \in {PortKey, OriginRequestKey("connectTimeout")} :
                /\ key \in DOMAIN containers[1].Labels
                /\ containers[1].Labels[key] = <<"p">>)

\* what does happen: the poll loop is left, with the rest of the tick undone
DerivationFailureEndsLoop ==
    [][ (DerivationFails /\ restarts' = restarts) => (pc' = "stopped" /\ calls' = calls) ]_vars

====
